---- MODULE Spec2Model ----
(***************************************************************************)
(* Model of the FM receive chain of RTL_ingest.ipynb: heterodyne mixing,   *)
(* low-pass filter design and convolution, integer decimation, polar       *)
(* discriminator demodulation, naive phase differencing and the manual     *)
(* phase-wrap correction.                                                  *)
(*                                                                         *)
(* Numbers.  A float is a record [v, neg]: an integer value and the IEEE   *)
(* sign bit, so that +0.0 and -0.0 are distinct (np.angle reads the sign   *)
(* of a zero).  Rounding is not modelled.  A complex number is a record    *)
(* [re, im] of two floats.  Angles are integers in units of pi/4, so       *)
(* Pi = 4 and 2*pi = 8; np.angle is exact on the axes and the diagonals    *)
(* and truncated towards zero to that resolution elsewhere.                *)
(***************************************************************************)
EXTENDS Integers, Sequences, FiniteSets

VARIABLES pc, samples, f2, shifted, N, h, filtered, r, downsampled,
          angles, diffs, rotated, deltas, adjusted_diffs, i

vars == <<pc, samples, f2, shifted, N, h, filtered, r, downsampled,
          angles, diffs, rotated, deltas, adjusted_diffs, i>>

\* ---------------------------------------------------------------- bounds
MaxLen == 4
MaxDemodLen == 3
MaxShift == 2
MaxTaps == 3
MaxR == 3
MaxAngle == 13
MaxUnwrapLen == 2
MaxPipeLen == 2

\* ------------------------------------------------------------- constants
\* np.pi in units of pi/4.
Pi == 4
\* sdr.sample_rate, in units in which a shift of 1 Hz turns a quarter per sample.
SampleRate == 4

\* ----------------------------------------------------------------- floats
F(x) == [v |-> x, neg |-> x < 0]
NegZero == [v |-> 0, neg |-> TRUE]
FNeg(a) == [v |-> 0 - a.v, neg |-> ~a.neg]
FMul(a, b) == [v |-> a.v * b.v, neg |-> a.neg # b.neg]
FAdd(a, b) ==
  LET s == a.v + b.v
  IN  [v |-> s,
       neg |-> IF s # 0 THEN s < 0 ELSE (a.v = 0 /\ a.neg /\ b.neg)]
FSub(a, b) == FAdd(a, FNeg(b))

\* ---------------------------------------------------------------- complex
C(x, y) == [re |-> F(x), im |-> F(y)]
CMul(a, b) ==
  [re |-> FSub(FMul(a.re, b.re), FMul(a.im, b.im)),
   im |-> FAdd(FMul(a.re, b.im), FMul(a.im, b.re))]
CAdd(a, b) == [re |-> FAdd(a.re, b.re), im |-> FAdd(a.im, b.im)]
Conj(a) == [re |-> a.re, im |-> FNeg(a.im)]
\* Python's == on complex numbers: the sign of a zero is not compared.
NumEq(a, b) == a.re.v = b.re.v /\ a.im.v = b.im.v
IsZero(a) == a.re.v = 0 /\ a.im.v = 0
Abs(x) == IF x < 0 THEN 0 - x ELSE x

\* atan2(y, x) for y >= 0 (by sign bit), in units of pi/4.
Atan2Upper(y, x) ==
  IF y.v = 0 THEN (IF x.neg THEN Pi ELSE 0)
  ELSE IF x.v > 0 THEN (IF y.v < x.v THEN 0 ELSE 1)
  ELSE IF x.v = 0 THEN 2
  ELSE (IF y.v > 0 - x.v THEN 2 ELSE 3)
AngleLowerHalf(a) == 0 - Atan2Upper(FNeg(a.im), a.re)
Angle(a) ==
  IF a.im.neg THEN AngleLowerHalf(a) ELSE Atan2Upper(a.im, a.re)

\* ------------------------------------------------------- numpy sequences
Min(a, b) == IF a < b THEN a ELSE b
Max(a, b) == IF a > b THEN a ELSE b
PyIndex(k, n) == IF k < 0 THEN Max(n + k, 0) ELSE Min(k, n)
\* s[lo:hi] with 0-based, possibly negative, bounds.
PySlice(s, lo, hi) ==
  LET a == PyIndex(lo, Len(s))
      b == PyIndex(hi, Len(s))
  IN  IF a >= b THEN <<>> ELSE SubSeq(s, a + 1, b)
\* s[lo:]
PyFrom(s, lo) == PySlice(s, lo, Len(s))
\* s[::step], step # 0: forwards from the first element for a positive step,
\* backwards from the last for a negative one.
PyStride(s, step) ==
  IF step > 0
    THEN [k \in 1..((Len(s) + step - 1) \div step) |-> s[(k - 1) * step + 1]]
    ELSE [k \in 1..((Len(s) - step - 1) \div (0 - step)) |->
            s[Len(s) + (k - 1) * step]]
\* a % b for a >= 0 and b # 0: the result takes the sign of b.
PyMod(a, b) == IF b > 0 THEN a % b ELSE 0 - ((0 - a) % (0 - b))

SeqsUpTo(S, lo, hi) == UNION {[1..n -> S] : n \in lo..hi}

\* ------------------------------------------------------------------ mixer
\* np.exp(1j*theta) for theta a whole number q of quarter turns.
CExp(q) ==
  CASE q % 4 = 0 -> C(1, 0)
    [] q % 4 = 1 -> C(0, 1)
    [] q % 4 = 2 -> C(-1, 0)
    [] q % 4 = 3 -> C(0, -1)
\* 2*pi*f*t[k] in quarter turns, t[k] = k / sample_rate, k 0-based.
QuarterTurns(f, k) == (4 * f * k) \div SampleRate
\* Mutant: the time steps counted from 1 instead of 0.
MixingSignalFromOne(n, f) == [k \in 1..n |-> CExp(QuarterTurns(f, k))]
\* mixing_signal = np.exp(1j*2*np.pi*f2*t), t = np.arange(0, n)/sample_rate
MixingSignal(n, f) == [k \in 1..n |-> CExp(QuarterTurns(f, k - 1))]
\* samples * mixing_signal
MixOp(s, f) == [k \in 1..Len(s) |-> CMul(s[k], MixingSignal(Len(s), f)[k])]

\* ----------------------------------------------------------------- filter
\* Mutant: an odd tap count rounded down instead of up.
EvenTapsDown(n) == IF n % 2 # 0 THEN n - 1 ELSE n
\* if N % 2: N += 1
EvenTaps(n) == IF n % 2 # 0 THEN n + 1 ELSE n
\* h = sinc * w: integer stand-in for the Blackman-windowed sinc, symmetric
\* about (n-1)/2 and largest at the centre.
Kernel(n) == [k \in 1..n |-> C(Min(k, n + 1 - k), 0)]

RECURSIVE ConvSum(_, _, _, _, _)
ConvSum(a, v, n, k, hi) ==
  IF k > hi THEN C(0, 0)
  ELSE CAdd(CMul(a[k], v[n + 1 - k]), ConvSum(a, v, n, k + 1, hi))
\* Mutant: np.convolve in mode "same", as long as the longer argument.
ConvolveSame(a, v) ==
  [n \in 1..Max(Len(a), Len(v)) |->
     ConvSum(a, v, n, Max(1, n + 1 - Len(v)), Min(Len(a), n))]
\* np.convolve(a, v) in its default mode "full", both arguments non-empty.
Convolve(a, v) ==
  [n \in 1..(Len(a) + Len(v) - 1) |->
     ConvSum(a, v, n, Max(1, n + 1 - Len(v)), Min(Len(a), n))]

\* -------------------------------------------------------------- decimator
\* Mutant: no truncation before the selection.
TruncateSkipped(s, rr) == s
\* Mutant: the slice taken without the guard, so that s[:-0] empties the array.
TruncateUnguarded(s, rr) == PySlice(s, 0, 0 - (Len(s) % rr))
\* if len(filtered)%r > 0: filtered = filtered[:-(len(filtered)%r)]
Truncate(s, rr) ==
  IF PyMod(Len(s), rr) > 0 THEN PySlice(s, 0, 0 - PyMod(Len(s), rr)) ELSE s
\* Mutant: the last sample of every block of r kept instead of the first.
SelectBlockEnd(s, rr) == [k \in 1..(Len(s) \div rr) |-> s[k * rr]]
\* Mutant: the selection started at the second sample.
SelectFromSecond(s, rr) == PyStride(PyFrom(s, 1), rr)
\* downsampled = filtered[::r]
Select(s, rr) == PyStride(s, rr)

\* ------------------------------------------------------------ demodulator
\* np.angle(x), elementwise
Angles(s) == [k \in 1..Len(s) |-> Angle(s[k])]
\* Mutant: the difference taken the other way round.
DiffReversed(a) == [k \in 1..(Len(a) - 1) |-> a[k] - a[k + 1]]
\* np.diff(a)
Diff(a) == [k \in 1..(Len(a) - 1) |-> a[k + 1] - a[k]]
\* Mutant: the conjugate taken of the later sample instead of the earlier one.
RotateConjLater(s) ==
  LET a == PyFrom(s, 1)
      b == PySlice(s, 0, Len(s) - 1)
  IN  [k \in 1..Len(a) |-> CMul(Conj(a[k]), b[k])]
\* Mutant: the conjugate left out, so that the phases add.
RotateNoConj(s) ==
  LET a == PyFrom(s, 1)
      b == PySlice(s, 0, Len(s) - 1)
  IN  [k \in 1..Len(a) |-> CMul(a[k], b[k])]
\* downsampled[1:] * np.conj(downsampled[:len(downsampled)-1])
Rotate(s) ==
  LET a == PyFrom(s, 1)
      b == PySlice(s, 0, Len(s) - 1)
  IN  [k \in 1..Len(a) |-> CMul(a[k], Conj(b[k]))]

\* --------------------------------------------------------------- unwrapper
\* Mutant: the correction applied in one direction only.
UnwrapOneDownOnly(angle) == IF angle > Pi THEN angle - 2 * Pi ELSE angle
\* Mutant: the correction made by pi instead of 2*pi.
UnwrapOneByPi(angle) ==
  IF angle > Pi THEN angle - Pi
  ELSE IF angle < 0 - Pi THEN angle + Pi
  ELSE angle
\* Mutant: the comparisons made non-strict, so that pi and -pi are moved too.
UnwrapOneNonStrict(angle) ==
  IF angle >= Pi THEN angle - 2 * Pi
  ELSE IF angle <= 0 - Pi THEN angle + 2 * Pi
  ELSE angle
\* the body of the loop over diffs
UnwrapOne(angle) ==
  IF angle > Pi THEN angle - 2 * Pi
  ELSE IF angle < 0 - Pi THEN angle + 2 * Pi
  ELSE angle
UnwrapAll(d) == [k \in 1..Len(d) |-> UnwrapOne(d[k])]

\* ---------------------------------------------------------------- actions
\* cell "upconvert": shifted = samples * mixing_signal
Mix ==
  /\ pc = "mix"
  /\ shifted' = MixOp(samples, f2)
  /\ pc' = "filter"
  /\ UNCHANGED <<samples, f2, N, h, filtered, r, downsampled,
                 angles, diffs, rotated, deltas, adjusted_diffs, i>>

\* cell "Create a low-pass filter" / "Apply the filter".  np.convolve raises
\* ValueError on an empty argument, after N and h have been assigned.
Filter ==
  /\ pc = "filter"
  /\ N' = EvenTaps(N)
  /\ h' = Kernel(EvenTaps(N))
  /\ IF Len(shifted) = 0
       THEN /\ filtered' = filtered
            /\ pc' = "error"
       ELSE /\ filtered' = Convolve(shifted, Kernel(EvenTaps(N)))
            /\ pc' = "decimate"
  /\ UNCHANGED <<samples, f2, shifted, r, downsampled,
                 angles, diffs, rotated, deltas, adjusted_diffs, i>>

\* Mutant: the cell after the decimation is skipped.
DecimateThenStop ==
  /\ pc = "decimate"
  /\ filtered' = Truncate(filtered, r)
  /\ downsampled' = Select(Truncate(filtered, r), r)
  /\ pc' = "done"
  /\ UNCHANGED <<samples, f2, shifted, N, h, r,
                 angles, diffs, rotated, deltas, adjusted_diffs, i>>

\* cell "Downsample": truncate filtered in place, then keep every r-th sample.
\* The cell does not test r: len(filtered)%r raises ZeroDivisionError for
\* r = 0, and a negative r passes through both statements.
Decimate ==
  /\ pc = "decimate"
  /\ IF r = 0
       THEN /\ pc' = "error"
            /\ UNCHANGED <<filtered, downsampled>>
       ELSE /\ filtered' = Truncate(filtered, r)
            /\ downsampled' = Select(Truncate(filtered, r), r)
            /\ pc' = "angles"
  /\ UNCHANGED <<samples, f2, shifted, N, h, r,
                 angles, diffs, rotated, deltas, adjusted_diffs, i>>

\* cell "angles = np.angle(downsampled); diffs = np.diff(angles)"
NaiveDiff ==
  /\ pc = "angles"
  /\ angles' = Angles(downsampled)
  /\ diffs' = Diff(Angles(downsampled))
  /\ pc' = "demod"
  /\ UNCHANGED <<samples, f2, shifted, N, h, filtered, r, downsampled,
                 rotated, deltas, adjusted_diffs, i>>

\* cell "FM Demodulate"
Demodulate ==
  /\ pc = "demod"
  /\ rotated' = Rotate(downsampled)
  /\ deltas' = Angles(Rotate(downsampled))
  /\ pc' = "unwrap"
  /\ UNCHANGED <<samples, f2, shifted, N, h, filtered, r, downsampled,
                 angles, diffs, adjusted_diffs, i>>

\* cell "adjusted_diffs = np.zeros(len(diffs)); for i, angle in ..."
Unwrap ==
  /\ pc = "unwrap"
  /\ adjusted_diffs' = UnwrapAll(diffs)
  /\ i' = (IF Len(diffs) = 0 THEN i ELSE <<Len(diffs) - 1>>)
  /\ pc' = "done"
  /\ UNCHANGED <<samples, f2, shifted, N, h, filtered, r, downsampled,
                 angles, diffs, rotated, deltas>>

\* cell "i = 0; while diffs[i] - deltas[i] < 1e-10: i += 1", run after the
\* demodulation cell: the assignment i = 0
SearchStart ==
  /\ pc = "unwrap"
  /\ i' = 0
  /\ pc' = "search"
  /\ UNCHANGED <<samples, f2, shifted, N, h, filtered, r, downsampled,
                 angles, diffs, rotated, deltas, adjusted_diffs>>

\* One evaluation of the loop condition.  diffs[i] raises IndexError once i
\* has reached len(diffs); on angles that are whole multiples of pi/4 the
\* difference is a whole number, so "< 1e-10" is "<= 0".
SearchStep ==
  /\ pc = "search"
  /\ IF i >= Len(diffs)
       THEN pc' = "error" /\ i' = i
       ELSE IF diffs[i + 1] - deltas[i + 1] <= 0
         THEN pc' = "search" /\ i' = i + 1
         ELSE pc' = "found" /\ i' = i
  /\ UNCHANGED <<samples, f2, shifted, N, h, filtered, r, downsampled,
                 angles, diffs, rotated, deltas, adjusted_diffs>>

\* ----------------------------------------------------------------- inputs
\* samples fed to the whole chain
PipeSamples == {C(1, 0), C(-1, 1), C(0, -1)}
FloatVals == {F(-1), NegZero, F(0), F(1)}
\* samples on the axes and diagonals, and the zero sample, with both zero signs
GridSamples == [re : FloatVals, im : FloatVals]
Shifts == (0 - MaxShift)..MaxShift

\* A name that no cell has bound yet holds the empty array.
Unbound == <<>>

\* The whole notebook: samples as captured, every other array unbound.
Init ==
  /\ pc = "mix"
  /\ samples \in SeqsUpTo(PipeSamples, 0, MaxLen)
  /\ f2 \in Shifts
  /\ N \in 1..MaxTaps
  /\ r \in 1..MaxR
  /\ shifted = Unbound /\ h = Unbound /\ filtered = Unbound
  /\ downsampled = Unbound /\ angles = Unbound /\ diffs = Unbound
  /\ rotated = Unbound /\ deltas = Unbound /\ adjusted_diffs = Unbound
  /\ i = Unbound

Next == Mix \/ Filter \/ Decimate \/ NaiveDiff \/ Demodulate \/ Unwrap

Spec == Init /\ [][Next]_vars

\* ------------------------------------------------- the decimator on its own
\* The "Downsample" cell run on any filtered array, the empty one included.
InitDecimate ==
  /\ pc = "decimate"
  /\ filtered \in SeqsUpTo(PipeSamples, 0, MaxLen)
  /\ r \in 1..MaxR
  /\ f2 = 0 /\ N = 2
  /\ samples = Unbound /\ shifted = Unbound /\ h = Unbound
  /\ downsampled = Unbound /\ angles = Unbound /\ diffs = Unbound
  /\ rotated = Unbound /\ deltas = Unbound /\ adjusted_diffs = Unbound
  /\ i = Unbound

NextDecimate == Decimate

SpecDecimate == InitDecimate /\ [][NextDecimate]_vars

\* C1: decimating L samples by r >= 1 leaves in filtered the first
\* L - (L mod r) samples (the trailing L mod r are discarded) and puts
\* exactly floor(L / r) samples in downsampled.
C1_DecimateLength ==
  [][pc = "decimate" =>
       /\ Len(filtered') = Len(filtered) - (Len(filtered) % r)
       /\ filtered' = SubSeq(filtered, 1, Len(filtered'))
       /\ Len(downsampled') = Len(filtered) \div r]_vars

C1_Witness ==
  /\ pc = "angles"
  /\ r = 3
  /\ Len(filtered) = 3
  /\ Len(downsampled) = 1

\* C7: decimating by 1 returns the input unchanged, element for element,
\* and truncates nothing.
C7_DecimateByOneIsIdentity ==
  [][pc = "decimate" /\ r = 1 =>
       /\ downsampled' = filtered
       /\ filtered' = filtered]_vars

C7_Witness ==
  /\ pc = "angles"
  /\ r = 1
  /\ Len(downsampled) >= 2
  /\ downsampled[1] # downsampled[2]
  /\ downsampled = filtered

\* ----------------------------------------------- the demodulator on its own
\* The cells from "angles = np.angle(downsampled)" on, run on any decimated
\* array of samples on the axes and diagonals.
InitDemod ==
  /\ pc = "angles"
  /\ downsampled \in SeqsUpTo(GridSamples, 0, MaxDemodLen)
  /\ f2 = 0 /\ N = 2 /\ r = 1
  /\ samples = Unbound /\ shifted = Unbound /\ h = Unbound
  /\ filtered = Unbound /\ angles = Unbound /\ diffs = Unbound
  /\ rotated = Unbound /\ deltas = Unbound /\ adjusted_diffs = Unbound
  /\ i = Unbound

NextDemod == NaiveDiff \/ Demodulate \/ Unwrap

SpecDemod == InitDemod /\ [][NextDemod]_vars

Demodulated == pc \in {"unwrap", "done"}
Pairs == 1..(Len(downsampled) - 1)
NonZeroPair(k) == ~IsZero(downsampled[k]) /\ ~IsZero(downsampled[k + 1])
\* the later sample is a negative real multiple of the earlier one
HalfTurn(a, b) ==
  /\ a.re.v * b.im.v - a.im.v * b.re.v = 0
  /\ a.re.v * b.re.v + a.im.v * b.im.v < 0

\* C2: demodulating n samples gives n - 1 values when n >= 2 and none when
\* n is 0 or 1; for n = 2 the value is angle(s[1] * conj(s[0])).
C2_DemodLength ==
  Demodulated =>
    /\ Len(deltas) = (IF Len(downsampled) >= 2 THEN Len(downsampled) - 1 ELSE 0)
    /\ Len(rotated) = Len(deltas)
    /\ Len(downsampled) = 2 =>
         deltas = <<Angle(CMul(downsampled[2], Conj(downsampled[1])))>>

C2_Witness ==
  /\ Demodulated
  /\ Len(downsampled) = 2
  /\ deltas = <<3>>

InitUnwrap ==
  /\ pc = "unwrap"
  /\ diffs \in SeqsUpTo((0 - MaxAngle)..MaxAngle, 0, MaxUnwrapLen)
  /\ f2 = 0 /\ N = 2 /\ r = 1
  /\ samples = Unbound /\ shifted = Unbound /\ h = Unbound
  /\ filtered = Unbound /\ downsampled = Unbound /\ angles = Unbound
  /\ rotated = Unbound /\ deltas = Unbound /\ adjusted_diffs = Unbound
  /\ i = Unbound

NextUnwrap == Unwrap

SpecUnwrap == InitUnwrap /\ [][NextUnwrap]_vars

\* C4 as stated: every element of the unwrapped array lies in (-pi, pi].
C4_Original ==
  pc = "done" =>
    \A k \in 1..Len(adjusted_diffs) :
      0 - Pi < adjusted_diffs[k] /\ adjusted_diffs[k] <= Pi

\* C4 amended: an element greater than pi has 2*pi subtracted once, an
\* element less than -pi has 2*pi added once, any other element is copied;
\* the result lies in [-pi, pi] for every element of [-3*pi, 3*pi].
C4_UnwrapOneStep ==
  pc = "done" =>
    /\ Len(adjusted_diffs) = Len(diffs)
    /\ \A k \in 1..Len(diffs) :
         /\ diffs[k] > Pi => adjusted_diffs[k] = diffs[k] - 2 * Pi
         /\ diffs[k] < 0 - Pi => adjusted_diffs[k] = diffs[k] + 2 * Pi
         /\ Abs(diffs[k]) <= Pi => adjusted_diffs[k] = diffs[k]
         /\ Abs(diffs[k]) <= 3 * Pi => Abs(adjusted_diffs[k]) <= Pi

C4_Witness ==
  /\ pc = "done"
  /\ diffs = <<5, 0 - 5>>
  /\ adjusted_diffs = <<0 - 3, 3>>

\* ------------------------------------------------- claims on the whole chain
\* C6: the filter cell leaves an even tap count: an odd request grows by
\* one, an even request is kept, and the kernel has that many taps.
C6_TapCountEven ==
  [][pc = "filter" =>
       /\ N' % 2 = 0
       /\ N' = (IF N % 2 = 1 THEN N + 1 ELSE N)
       /\ Len(h') = N']_vars

C6_Witness ==
  /\ pc = "decimate"
  /\ N = 4
  /\ Len(h) = 4

FilterRan == pc \in {"decimate", "error"}

\* C8 as stated: for every input and kernel the filter cell produces
\* len(input) + len(kernel) - 1 samples.
C8_Original ==
  FilterRan =>
    /\ pc = "decimate"
    /\ Len(filtered) = Len(shifted) + Len(h) - 1

\* C8 amended: for every non-empty input and every kernel the filter cell
\* produces len(input) + len(kernel) - 1 samples; it fails only on an empty
\* input.
C8_ConvolveLength ==
  FilterRan =>
    /\ pc = "error" <=> Len(shifted) = 0
    /\ pc = "decimate" => Len(filtered) = Len(shifted) + Len(h) - 1

C8_Witness ==
  /\ pc = "decimate"
  /\ Len(shifted) = 3
  /\ Len(h) = 4
  /\ Len(filtered) = 6

\* C9: mixing keeps the length, turns sample i by 2*pi*f2*i/sample_rate
\* without changing its magnitude, and mixing the result by -f2 gives the
\* input back at every index.
C9_MixInvertible ==
  pc # "mix" =>
    /\ Len(shifted) = Len(samples)
    /\ \A k \in 1..Len(samples) :
         /\ (Angle(shifted[k]) - Angle(samples[k])
               - 2 * QuarterTurns(f2, k - 1)) % (2 * Pi) = 0
         /\ shifted[k].re.v * shifted[k].re.v + shifted[k].im.v * shifted[k].im.v
              = samples[k].re.v * samples[k].re.v + samples[k].im.v * samples[k].im.v
         /\ NumEq(MixOp(shifted, 0 - f2)[k], samples[k])

C9_Witness ==
  /\ pc = "filter"
  /\ f2 = 1
  /\ samples = <<C(1, 0), C(1, 0), C(-1, 1)>>
  /\ NumEq(shifted[2], C(0, 1))
  /\ NumEq(shifted[3], C(1, -1))

\* ------------------------------------- the decimator with any integer factor
\* The "Downsample" cell with r set to any integer, zero and negatives included.
InitDecimateAny ==
  /\ pc = "decimate"
  /\ filtered \in SeqsUpTo(PipeSamples, 0, MaxLen)
  /\ r \in (0 - MaxR)..MaxR
  /\ f2 = 0 /\ N = 2
  /\ samples = Unbound /\ shifted = Unbound /\ h = Unbound
  /\ downsampled = Unbound /\ angles = Unbound /\ diffs = Unbound
  /\ rotated = Unbound /\ deltas = Unbound /\ adjusted_diffs = Unbound
  /\ i = Unbound

NextDecimateAny == Decimate

SpecDecimateAny == InitDecimateAny /\ [][NextDecimateAny]_vars

\* C11: with a factor r <= 0 the decimation cell ends in an error and never
\* produces a decimated sequence.
C11_NonPositiveFactorRejected ==
  r <= 0 => pc \in {"decimate", "error"}

\* C12: no stage alters the sequence it reads: mixing leaves samples as they
\* were, filtering leaves shifted, decimating leaves filtered, and the
\* demodulation cells leave downsampled.
C12_StageInputsUnchanged ==
  [][/\ pc = "mix" => samples' = samples
     /\ pc = "filter" => shifted' = shifted
     /\ pc = "decimate" => filtered' = filtered
     /\ pc \in {"angles", "demod"} => downsampled' = downsampled]_vars

\* C13: for r >= 1 the decimated sequence holds, at each 0-based index i below
\* floor(L / r), the sample of the input at index i * r, the first sample of
\* the input included, and nothing else.
C13_SelectContent ==
  [][pc = "decimate" =>
       /\ DOMAIN downsampled' = 1..(Len(filtered) \div r)
       /\ \A k \in 1..(Len(filtered) \div r) :
            downsampled'[k] = filtered[(k - 1) * r + 1]]_vars

C13_Witness ==
  /\ pc = "angles"
  /\ r = 2
  /\ Len(filtered) = 4
  /\ filtered[1] # filtered[2] /\ filtered[3] # filtered[4]
  /\ downsampled = <<filtered[1], filtered[3]>>

\* ------------------------------------------------------ the combined cell
\* The last processing cell of the notebook runs the four stages in one go:
\* mixing, filter design and convolution, decimation, and then the polar
\* discriminator directly on the decimated samples.
DemodulateFinal ==
  /\ pc = "angles"
  /\ rotated' = Rotate(downsampled)
  /\ deltas' = Angles(Rotate(downsampled))
  /\ pc' = "done"
  /\ UNCHANGED <<samples, f2, shifted, N, h, filtered, r, downsampled,
                 angles, diffs, adjusted_diffs, i>>

\* samples as reloaded from the capture file, before the combined cell, whose
\* first statement assigns one positive shift
InitPipeline ==
  /\ pc = "mix"
  /\ samples \in SeqsUpTo({C(1, 0), C(0, -1)}, 0, MaxPipeLen)
  /\ f2 = 1
  /\ N \in 1..MaxTaps
  /\ r \in 1..MaxR
  /\ shifted = Unbound /\ h = Unbound /\ filtered = Unbound
  /\ downsampled = Unbound /\ angles = Unbound /\ diffs = Unbound
  /\ rotated = Unbound /\ deltas = Unbound /\ adjusted_diffs = Unbound
  /\ i = Unbound

NextPipeline == Mix \/ Filter \/ Decimate \/ DemodulateFinal

\* The cell is one sequential run: a statement that can run does run.
SpecPipeline == InitPipeline /\ [][NextPipeline]_vars /\ WF_vars(NextPipeline)

\* one statement group after the other, in the order of the cell
LinearStep ==
  /\ pc = "mix" => pc' = "filter"
  /\ pc = "filter" => pc' = "decimate"
  /\ pc = "decimate" => pc' = "angles"
  /\ pc = "angles" => pc' = "done"
  /\ pc # "done"
\* the same, with the failure of the convolution on an empty input
LinearStepOrError ==
  /\ pc = "mix" => pc' = "filter"
  /\ pc = "filter" => pc' = (IF Len(samples) = 0 THEN "error" ELSE "decimate")
  /\ pc = "decimate" => pc' = "angles"
  /\ pc = "angles" => pc' = "done"
  /\ pc \notin {"done", "error"}
OutputAvailable ==
  /\ pc = "done"
  /\ Len(deltas) = Max(Len(downsampled) - 1, 0)
\* a statement group is still to run
Running ==
  \/ pc = "mix" /\ ENABLED Mix
  \/ pc = "filter" /\ ENABLED Filter
  \/ pc = "decimate" /\ ENABLED Decimate
  \/ pc = "angles" /\ ENABLED DemodulateFinal

\* C14 as stated: for every finite input the cell runs mix, filter, decimate,
\* demodulate in that order, each once, and never stops before the
\* demodulated output is available.
C14_Original ==
  /\ [][LinearStep]_vars
  /\ [](Running \/ OutputAvailable)

\* C14 amended: for every non-empty finite input the cell runs mix, filter,
\* decimate, demodulate in that order, each once, and never stops before the
\* demodulated output is available; on an empty input it runs mix and then
\* stops with the error of the convolution.
C14_LinearChain ==
  /\ [][LinearStepOrError]_vars
  /\ [](IF Len(samples) > 0
          THEN Running \/ OutputAvailable
          ELSE Running \/ pc = "error")

C14_Witness ==
  /\ pc = "done"
  /\ Len(samples) = 2
  /\ Len(deltas) = 1
  /\ deltas[1] # 0

\* C15: in the combined cell, for an input of L >= 1 samples, a kernel of
\* len(h) taps and a factor r >= 1, the mixed array has L samples, the
\* convolution L + len(h) - 1, the decimated array floor((L + len(h) - 1) / r)
\* and the demodulated output max(floor((L + len(h) - 1) / r) - 1, 0).
DecimatedCount == (Len(samples) + Len(h) - 1) \div r
C15_EndToEndCount ==
  (Len(samples) >= 1 /\ r >= 1) =>
    /\ pc # "mix" => Len(shifted) = Len(samples)
    /\ pc = "decimate" => Len(filtered) = Len(samples) + Len(h) - 1
    /\ pc \in {"angles", "done"} => Len(downsampled) = DecimatedCount
    /\ pc = "done" => Len(deltas) = Max(DecimatedCount - 1, 0)

C15_Witness ==
  /\ pc = "done"
  /\ Len(samples) = 2 /\ Len(h) = 4 /\ r = 2
  /\ Len(filtered) = 4
  /\ Len(downsampled) = 2
  /\ Len(deltas) = 1

\* ------------------------------------------------ the search for a mismatch
\* The naive differences and the demodulation, then the search cell, on any
\* decimated array of samples on the axes and diagonals.
NextSearch == NaiveDiff \/ Demodulate \/ SearchStart \/ SearchStep

SpecSearch == InitDemod /\ [][NextSearch]_vars

Searching == pc \in {"search", "found", "error"}
Disagree(k) == diffs[k] # deltas[k]

\* C16: whenever diffs and deltas disagree at some index, the search never
\* reads past the end of the arrays, never moves i past an index at which
\* they disagree, keeps i < len(diffs), and halts with i the smallest index
\* at which they disagree.
C16_SearchFindsFirstMismatch ==
  (Searching /\ \E k \in 1..Len(diffs) : Disagree(k)) =>
    /\ pc # "error"
    /\ i < Len(diffs)
    /\ \A k \in 1..i : ~Disagree(k)
    /\ pc = "found" => Disagree(i + 1)

\* C17: for every element x of diffs with -2*pi < x < 2*pi the unwrap loop
\* writes a y with -pi <= y <= pi and y - x one of -2*pi, 0, 2*pi; an x in
\* [-pi, pi] is copied unchanged; the output is as long as the input.
C17_UnwrapRealistic ==
  pc = "done" =>
    /\ Len(adjusted_diffs) = Len(diffs)
    /\ \A k \in 1..Len(diffs) :
         Abs(diffs[k]) < 2 * Pi =>
           /\ 0 - Pi <= adjusted_diffs[k] /\ adjusted_diffs[k] <= Pi
           /\ adjusted_diffs[k] - diffs[k] \in {0 - 2 * Pi, 0, 2 * Pi}
           /\ (0 - Pi <= diffs[k] /\ diffs[k] <= Pi)
                => adjusted_diffs[k] = diffs[k]

C17_Witness ==
  /\ pc = "done"
  /\ diffs = <<2 * Pi - 1, 0 - Pi>>
  /\ adjusted_diffs = <<0 - 1, 0 - Pi>>

====
